---- MODULE Spec2Model ----
(***************************************************************************)
(* Model of the job orchestration of packages/jscrambler-cli/src/index.js: *)
(* protectAndDownload, instrumentAndDownload, setProfilingState, the two   *)
(* poll loops and updateApplicationSources, run against a transport whose  *)
(* answers are chosen nondeterministically.  One action is one await       *)
(* continuation of the async code: the network call it issues, the answer  *)
(* it gets and all the synchronous code that follows up to the next await. *)
(***************************************************************************)
EXTENDS Integers, Sequences, FiniteSets, TLC

VARIABLES
    pc,             \* position of the running workflow ("idle" when none runs)
    wf,             \* which entry point is running
    cfg,            \* finalConfig of the running invocation
    destCallback,   \* whether the destCallback argument was passed
    requested,      \* setProfilingState: the `state` argument
    calls,          \* the transport's record of the calls of this invocation
    console,        \* what this invocation printed, in order
    remoteRun,      \* the remote service's profiling run of the application
    appProfiling,   \* protectAndDownload: the local appProfiling object
    source,         \* the bundle built by updateApplicationSources
    protectionId,   \* protectAndDownload: id answered by the job creation
    protection,     \* the last protection snapshot returned by a fetch
    instrumentation,\* the last instrumentation object held by the workflow
    fetched,        \* the states seen by the poll loop, one per fetch
    delays,         \* number of 500 ms delays the poll loop has slept
    outcome,        \* "none" while running, then "returned" or "threw"
    error,          \* message of the thrown Error
    ret,            \* value the invocation resolved to
    invocations,    \* number of invocations started so far
    polled,         \* how the poll loop ended: "returned" or "threw"
    remoteProtections, \* ids of the application's protections that the
                    \* remote service has not yet brought to a terminal state
    orchestrators,  \* concurrent callers of instrumentAndDownload: where
                    \* each one is, its application, the run its probe found
                    \* and the run it created
    runs            \* the profiling runs the remote service holds, of every
                    \* application, by id

vars == <<pc, wf, cfg, destCallback, requested, calls, console, remoteRun,
          appProfiling, source, protectionId, protection, instrumentation,
          fetched, delays, outcome, error, ret, invocations, polled,
          remoteProtections, orchestrators, runs>>

----------------------------------------------------------------------------
(* Bounds *)

MaxRetries == 2
MaxInvocations == 2

----------------------------------------------------------------------------
(* Values *)

Undefined == "undefined"
NoError == Undefined

\* the id of the protection created by the n-th invocation
ProtectionId(n) == "p" \o ToString(n)
ProtectionIds == { ProtectionId(n) : n \in 1..MaxInvocations }
RunIds == {"r1", "r2"}

\* states of a protection: pollProtection repeats on every state that is
\* not one of the three terminal ones
ProtectionTerminal == {"finished", "errored", "canceled"}
ProtectionStates == {"running"} \cup ProtectionTerminal

\* states of a profiling run the client code names, and one it does not
InstrumentationTerminal ==
    {"FINISHED_INSTRUMENTATION", "FAILED_INSTRUMENTATION", "DELETED"}
InstrumentationStates == {"CREATED"} \cup InstrumentationTerminal
ProfilingStates == {"RUNNING", "READY"}

NoRun == [id |-> Undefined, state |-> Undefined]

\* concurrent callers and the applications they may target
Orchestrators == {"o1", "o2"}
Applications == {"a1", "a2"}

\* the calls the callers make in all, one more than a caller alone makes,
\* and so the runs the remote service can come to hold: one per call
MaxRuns == MaxInvocations + 1

\* a run id the service has not given out yet
NoRemoteRun == [app |-> Undefined, state |-> Undefined, deletedBy |-> Undefined]

\* a caller that is not inside instrumentAndDownload; run ids are 1..MaxRuns
\* and 0 stands for no run
IdleOrchestrator ==
    [pc |-> "idle", app |-> Undefined, found |-> 0, run |-> 0,
     outcome |-> "none", error |-> NoError, invocations |-> 0]

NoProfiling == [defined |-> FALSE, id |-> Undefined, state |-> Undefined]
NoSource == [defined |-> FALSE, filename |-> Undefined,
             extension |-> Undefined, content |-> Undefined]

\* a response as errorHandler reads it: res.errors (absent, or a list of
\* messages), res.data.errors (absent, or a list) and res.message
OkResponse ==
    [hasErrors |-> FALSE, errors |-> <<>>, dataErrors |-> <<>>,
     message |-> Undefined]
Responses ==
    { OkResponse,
      [OkResponse EXCEPT !.hasErrors = TRUE],
      [OkResponse EXCEPT !.hasErrors = TRUE, !.errors = <<"e1", "e2">>],
      [OkResponse EXCEPT !.dataErrors = <<"g1">>],
      [OkResponse EXCEPT !.message = "m1"] }

\* the sources of a protection snapshot, each with its errorMessages
SourcesChoices ==
    { <<>>,
      <<[filename |-> "a.js", errorMessages |-> <<"x">>]>>,
      <<[filename |-> "a.js", errorMessages |-> <<>>],
        [filename |-> "b.js", errorMessages |-> <<"y", "z">>]>> }

NoProtection ==
    [state |-> Undefined, bail |-> FALSE, growthWarning |-> FALSE,
     errorMessage |-> Undefined, sources |-> <<>>]

\* snapshots a fetch may return in data.applicationProtection; the fields
\* other than the state are only read once the state is finished or errored
ProtectionSnapshots ==
    { [NoProtection EXCEPT !.state = "running"],
      [NoProtection EXCEPT !.state = "canceled"],
      [NoProtection EXCEPT !.state = "finished", !.growthWarning = TRUE] }
    \cup
    [state : {"finished"}, bail : BOOLEAN, growthWarning : {FALSE},
     errorMessage : {Undefined}, sources : SourcesChoices]
    \cup
    [state : {"errored"}, bail : BOOLEAN, growthWarning : {FALSE},
     errorMessage : {"boom"}, sources : SourcesChoices]

NoInstrumentation ==
    [hasErrors |-> FALSE, errors |-> <<>>, dataErrors |-> <<>>,
     message |-> Undefined, id |-> Undefined, state |-> Undefined,
     instrumentationErrors |-> <<>>]

FilesSrcChoices ==
    { [defined |-> FALSE, items |-> <<>>],
      [defined |-> TRUE, items |-> <<>>],
      [defined |-> TRUE, items |-> <<"*.js">>] }

\* finalConfig, reduced to the options the workflows branch on
NoConfig ==
    [applicationId |-> FALSE, filesDest |-> FALSE, sources |-> FALSE,
     filesSrc |-> [defined |-> FALSE, items |-> <<>>], skipSources |-> FALSE,
     removeProfilingData |-> FALSE, bail |-> Undefined,
     params |-> FALSE, applicationTypes |-> FALSE,
     languageSpecifications |-> FALSE, browsers |-> FALSE,
     areSubscribersOrdered |-> FALSE, sourceMaps |-> FALSE]

\* the options that feed updateData: none of them, or one of them given
UpdateOptions ==
    LET none == [params |-> FALSE, applicationTypes |-> FALSE,
                 languageSpecifications |-> FALSE, browsers |-> FALSE,
                 areSubscribersOrdered |-> FALSE, sourceMaps |-> FALSE]
    IN  { none,
          [none EXCEPT !.params = TRUE],
          [none EXCEPT !.applicationTypes = TRUE],
          [none EXCEPT !.languageSpecifications = TRUE],
          [none EXCEPT !.browsers = TRUE],
          [none EXCEPT !.areSubscribersOrdered = TRUE],
          [none EXCEPT !.sourceMaps = TRUE] }

\* the options updateApplicationSources branches on
SourceConfigs ==
    { [NoConfig EXCEPT !.applicationId = TRUE, !.filesDest = TRUE,
                       !.sources = s, !.filesSrc = f, !.skipSources = k] :
        s \in BOOLEAN, f \in FilesSrcChoices, k \in BOOLEAN }

\* configurations that pass the two checks, filesDest given and no
\* destCallback: the source options with every removeProfilingData and
\* bail, and each update option with and without skipSources
PassingProtectConfigs ==
    { [c EXCEPT !.removeProfilingData = r, !.bail = b] :
        c \in SourceConfigs, r \in BOOLEAN,
        b \in {Undefined, "true", "false"} }
    \cup
    { [NoConfig EXCEPT !.applicationId = TRUE, !.filesDest = TRUE,
                       !.skipSources = k,
                       !.params = u.params,
                       !.applicationTypes = u.applicationTypes,
                       !.languageSpecifications = u.languageSpecifications,
                       !.browsers = u.browsers,
                       !.areSubscribersOrdered = u.areSubscribersOrdered,
                       !.sourceMaps = u.sourceMaps] :
        k \in BOOLEAN, u \in UpdateOptions }

\* the (config, destCallback) arguments of a workflow: each passing
\* configuration as it is, and with every other way of giving or omitting
\* applicationId, filesDest and destCallback when that fails a check or the
\* configuration is the plain one
Arguments(passing) ==
    { <<c, FALSE>> : c \in passing }
    \cup
    { a \in { <<[c EXCEPT !.applicationId = i, !.filesDest = d], cb>> :
                  c \in passing, i \in BOOLEAN, d \in BOOLEAN,
                  cb \in BOOLEAN } :
        \/ ~a[1].applicationId
        \/ ~a[1].filesDest /\ ~a[2]
        \/ [a[1] EXCEPT !.filesDest = FALSE] =
               [NoConfig EXCEPT !.applicationId = TRUE] }

\* one entry of the transport's record: the request, the status code of
\* its answer and what errorHandler made of the answer (NoError when it
\* returned it, and when the answer was not handed to errorHandler)
Call(method, kind, id, state, statusCode, thrown) ==
    [method |-> method, kind |-> kind, id |-> id, state |-> state,
     statusCode |-> statusCode, thrown |-> thrown]

\* one console line: its text and, for the error reports, the errors listed
Printed(text, detail) == [text |-> text, detail |-> detail]

----------------------------------------------------------------------------
(* Pure functions *)

\* errorHandler: the message it throws, NoError when it returns res
ErrorHandler(res) ==
    IF res.hasErrors /\ Len(res.errors) > 0
        THEN "Error: " \o res.errors[1]
    ELSE IF Len(res.dataErrors) > 0
        THEN "GraphQL Query Error"
    ELSE IF res.message # Undefined
        THEN "Error: " \o res.message
    ELSE NoError

\* errorHandler prints each res.data.errors message before it throws
ErrorHandlerPrints(res) ==
    IF ~(res.hasErrors /\ Len(res.errors) > 0) /\ Len(res.dataErrors) > 0
        THEN [i \in 1..Len(res.dataErrors) |->
                 Printed(res.dataErrors[i], <<>>)]
        ELSE <<>>

\* the filesSrc of the configuration, not cleared when sources is given
FilesSrcOfKeepsFilesSrc(c) == c.filesSrc

\* `sources || (filesSrc && filesSrc.length)` with the filesSrc the workflow
\* passes: undefined whenever sources is given
FilesSrcOf(c) ==
    IF c.sources THEN [defined |-> FALSE, items |-> <<>>] ELSE c.filesSrc

\* the condition without the test of filesSrc.length
HasNewSourcesAnyFilesSrc(c) == c.sources \/ FilesSrcOf(c).defined

HasNewSources(c) ==
    c.sources \/ (FilesSrcOf(c).defined /\ Len(FilesSrcOf(c).items) > 0)

\* the archive updateApplicationSources builds: from the files when filesSrc
\* is non-empty, else from the inline sources
Bundle(c) ==
    [defined |-> TRUE, filename |-> "application.zip", extension |-> "zip",
     content |-> IF FilesSrcOf(c).defined /\ Len(FilesSrcOf(c).items) > 0
                    THEN "zip(filesSrc)" ELSE "zipSources(sources)"]

\* the condition without its test of updateData.browsers
NeedsUpdateWithoutBrowsers(c) ==
    \/ c.params
    \/ c.applicationTypes
    \/ c.languageSpecifications
    \/ c.areSubscribersOrdered

\* the condition under which protectAndDownload updates the application
NeedsUpdate(c) ==
    \/ c.params
    \/ c.applicationTypes
    \/ c.languageSpecifications
    \/ c.browsers
    \/ c.areSubscribersOrdered

\* `bail = true` in the destructuring of finalConfig
BailOf(c) == c.bail # "false"

\* the errorMessages of one source, each tagged with the source's filename
RECURSIVE TagMessages(_, _)
TagMessages(filename, msgs) ==
    IF msgs = <<>> THEN <<>>
    ELSE <<[filename |-> filename, message |-> Head(msgs)]>>
         \o TagMessages(filename, Tail(msgs))

\* sourcesErrors: the concatenation over protection.sources
RECURSIVE SourcesErrors(_)
SourcesErrors(srcs) ==
    IF srcs = <<>> THEN <<>>
    ELSE TagMessages(Head(srcs).filename, Head(srcs).errorMessages)
         \o SourcesErrors(Tail(srcs))

\* printSourcesErrors
PrintSourcesErrors(errs) == <<Printed("Application sources errors:", errs)>>

\* the console.warn of each non-fatal error
NonFatalWarnings(errs) ==
    [i \in 1..Len(errs) |-> Printed("Non-fatal error", <<errs[i]>>)]

\* the run the profiling probe answers with: a deleted run is not found
ActiveRun(run) == run.id # Undefined /\ run.state # "DELETED"

\* the checks without the one on filesDest
PreconditionErrorNoDest(c, cb) ==
    IF ~c.applicationId
        THEN "Required *applicationId* not provided"
    ELSE NoError

\* the two precondition checks of both workflows; destCallback clears
\* filesDest before they run
PreconditionError(c, cb) ==
    IF ~c.applicationId
        THEN "Required *applicationId* not provided"
    ELSE IF ~(IF cb THEN FALSE ELSE c.filesDest) /\ ~cb
        THEN "Required *filesDest* not provided"
    ELSE NoError

\* the guard refusing whenever a run was found, whatever its state
ReadyProfilingPreventsAnyRun(prof) == prof.defined

\* the guard comparing with a state no run is ever in
ReadyProfilingPreventsMisspelt(prof) == prof.defined /\ prof.state = "Ready"

\* updateApplicationSources refuses to replace sources of a READY profiling
ReadyProfilingPrevents(prof) == prof.defined /\ prof.state = "READY"

ReadyProfilingMessage ==
    "Ready profiling data PREVENTS source files from being UPDATED!"

\* a pollProtection that sleeps and fetches again after an errors field
PollProtectionOnErrorsRetries(hasErrors) ==
    IF hasErrors THEN "retry" ELSE "classify"

\* `if (applicationProtection.errors)`: pollProtection throws, else it
\* goes on to classify the state
PollProtectionOnErrors(hasErrors) ==
    IF hasErrors THEN "throw" ELSE "classify"

\* the branch taken when canceled is not among the terminal states
PollProtectionBranchCanceledRetries(state) ==
    IF state # "finished" /\ state # "errored"
        THEN "retry"
    ELSE "return"

\* the branch taken when errored throws like canceled
PollProtectionBranchErroredThrows(state) ==
    IF state # "finished" /\ state # "errored" /\ state # "canceled"
        THEN "retry"
    ELSE IF state = "canceled" \/ state = "errored" THEN "throw"
    ELSE "return"

\* the branch taken when errored is not among the terminal states
PollProtectionBranchErroredRetries(state) ==
    IF state # "finished" /\ state # "canceled"
        THEN "retry"
    ELSE IF state = "canceled" THEN "throw"
    ELSE "return"

\* the branch pollProtection takes on a fetched state
PollProtectionBranch(state) ==
    IF state # "finished" /\ state # "errored" /\ state # "canceled"
        THEN "retry"
    ELSE IF state = "canceled" THEN "throw"
    ELSE "return"

\* the branch pollInstrumentation's switch takes on a fetched state
PollInstrumentationBranch(state) ==
    CASE state = "DELETED" -> "throw"
      [] state = "FAILED_INSTRUMENTATION" -> "errorHandler"
      [] state = "FINISHED_INSTRUMENTATION" -> "return"
      [] OTHER -> "retry"

\* the verdict when the per-source errors are looked at before the state
ProtectionVerdictSourcesFirst(p) ==
    IF Len(SourcesErrors(p.sources)) > 0
        THEN IF p.bail THEN "bail" ELSE "warn"
    ELSE IF p.state = "errored" THEN "errored"
    ELSE "proceed"

\* what protectAndDownload does with the protection the poll returned
ProtectionVerdict(p) ==
    IF p.state = "errored" THEN "errored"
    ELSE IF Len(SourcesErrors(p.sources)) > 0
        THEN IF p.bail THEN "bail" ELSE "warn"
    ELSE "proceed"

\* a catch that swallows every failure of the probe
ProbeCatchSwallowsAll(statusCode) == "undefined"

\* the catch of the profiling probe: `if (e.statusCode !== 404) throw e`,
\* otherwise the awaited value is undefined
ProbeCatch(statusCode) ==
    IF statusCode # "404" THEN "throw" ELSE "undefined"

\* the failures the remote answers a profiling probe with: not-found only
\* when the application has no active run
ProbeFailures(run) == IF ActiveRun(run) THEN {"500"} ELSE {"404", "500"}

\* the source update made whatever skipSources is
UpdatesSourcesAlways(c) == TRUE

\* `if (!skipSources)` of both workflows
UpdatesSources(c) == ~c.skipSources

\* startInstrumentation without the deletion of the run it found
StartInstrumentationBranchNeverDeletes(found) == "createProfilingRun"

\* startInstrumentation deletes the run the probe found, if any
StartInstrumentationBranch(found) ==
    IF found THEN "deletePreviousRun" ELSE "createProfilingRun"

\* the `${e.message} at ${e.fileName}:${e.lineNumber}` entries
FormatInstrumentationErrors(errs) ==
    [i \in 1..Len(errs) |->
        errs[i].message \o " at " \o errs[i].fileName \o ":"
            \o errs[i].lineNumber]

\* the errors and instrumentationErrors a fetched run may carry
InstrumentationAnswers(state) ==
    IF state # "FAILED_INSTRUMENTATION"
        THEN { [hasErrors |-> TRUE, errors |-> <<>>,
                instrumentationErrors |-> <<>>] }
        ELSE { [hasErrors |-> FALSE, errors |-> <<>>,
                instrumentationErrors |-> <<>>] }
             \cup
             [hasErrors : {TRUE}, errors : {<<>>, <<"e1">>},
              instrumentationErrors :
                  {<<>>, <<[message |-> "Unexpected token",
                            fileName |-> "a.js", lineNumber |-> "3"]>>}]

\* a fetched run with these errors and instrumentationErrors
FetchedInstrumentation(id, state, a) ==
    [NoInstrumentation EXCEPT
        !.id = id, !.state = state, !.hasErrors = a.hasErrors,
        !.errors = a.errors,
        !.instrumentationErrors = a.instrumentationErrors]

\* FAILED_INSTRUMENTATION: the formatted instrumentationErrors are
\* appended to instrumentation.errors before errorHandler
WithInstrumentationErrors(i) ==
    [i EXCEPT !.errors = i.errors \o
                  FormatInstrumentationErrors(i.instrumentationErrors)]

\* everything errorHandler may make of an answer
ErrorHandlerVerdicts ==
    { ErrorHandler(res) : res \in Responses }
    \cup
    { ErrorHandler(WithInstrumentationErrors(
          FetchedInstrumentation(Undefined, "FAILED_INSTRUMENTATION", a))) :
        a \in InstrumentationAnswers("FAILED_INSTRUMENTATION") }

\* a rejected transport promise: the request failed with this status code
Rejected(statusCode) == "Request failed: " \o statusCode

----------------------------------------------------------------------------
(* How an action ends: by throwing, by returning, or at the next await *)

Throws(msg, out) ==
    /\ pc' = "done"
    /\ outcome' = "threw"
    /\ error' = msg
    /\ ret' = Undefined
    /\ console' = out

Returns(value, out) ==
    /\ pc' = "done"
    /\ outcome' = "returned"
    /\ error' = NoError
    /\ ret' = value
    /\ console' = out

Awaits(next, out) ==
    /\ pc' = next
    /\ outcome' = "none"
    /\ error' = NoError
    /\ ret' = Undefined
    /\ console' = out

\* the request is sent and the transport records it with its answer
Issue(method, kind, id, state) ==
    \E statusCode \in {"200", "404", "500"} :
      \E thrown \in ErrorHandlerVerdicts :
        calls' = Append(calls,
                        Call(method, kind, id, state, statusCode, thrown))

\* the answer came with this status code and was not an error for
\* errorHandler
Answered(statusCode) ==
    /\ calls'[Len(calls')].statusCode = statusCode
    /\ calls'[Len(calls')].thrown = NoError

\* the answer is the response res
AnsweredWith(res) ==
    /\ calls'[Len(calls')].statusCode = "200"
    /\ calls'[Len(calls')].thrown = ErrorHandler(res)

\* the transport rejects the request with a status that is not swallowed
Rejects == Answered("500") /\ Throws(Rejected("500"), console)

\* an errorHandler that looks at res.data.errors only
CheckedOnlyDataErrors(res, next, out) ==
    IF Len(res.dataErrors) > 0
        THEN Throws(ErrorHandler(res), out \o ErrorHandlerPrints(res))
        ELSE Awaits(next, out)

\* the answer is not passed to errorHandler
CheckedIgnoresErrors(res, next, out) == Awaits(next, out)

\* errorHandler(res) followed by the rest of the step
Checked(res, next, out) ==
    IF ErrorHandler(res) # NoError
        THEN Throws(ErrorHandler(res), out \o ErrorHandlerPrints(res))
        ELSE Awaits(next, out)

Init ==
    /\ pc = "idle"
    /\ wf = "none"
    /\ cfg = NoConfig
    /\ destCallback = FALSE
    /\ requested = Undefined
    /\ calls = <<>>
    /\ console = <<>>
    /\ remoteRun \in {NoRun} \cup
           [id : {"r1"},
            state : {"FINISHED_INSTRUMENTATION"} \cup ProfilingStates]
    /\ appProfiling = NoProfiling
    /\ source = NoSource
    /\ protectionId = Undefined
    /\ protection = NoProtection
    /\ instrumentation = NoInstrumentation
    /\ fetched = <<>>
    /\ delays = 0
    /\ outcome = "none"
    /\ error = NoError
    /\ ret = Undefined
    /\ invocations = 0
    /\ polled = "none"
    /\ remoteProtections = {}
    /\ orchestrators = [o \in Orchestrators |-> IdleOrchestrator]
    /\ runs = [r \in 1..MaxRuns |-> NoRemoteRun]

\* an entry point is called with its arguments
Begin(w, c, cb, st) ==
    /\ pc = "idle"
    /\ invocations < MaxInvocations
    /\ invocations' = invocations + 1
    /\ wf' = w
    /\ cfg' = c
    /\ destCallback' = cb
    /\ requested' = st
    /\ UNCHANGED <<calls, remoteRun, appProfiling, source, protectionId,
                   protection, instrumentation, fetched, delays, polled,
                   remoteProtections, orchestrators, runs>>

\* the promise of the invocation has settled and the caller may call an
\* entry point again: nothing is kept from one invocation to the next but
\* the state of the remote service
Settled ==
    /\ pc = "done"
    /\ invocations < MaxInvocations
    /\ pc' = "idle"
    /\ wf' = "none"
    /\ cfg' = NoConfig
    /\ destCallback' = FALSE
    /\ requested' = Undefined
    /\ calls' = <<>>
    /\ console' = <<>>
    /\ appProfiling' = NoProfiling
    /\ source' = NoSource
    /\ protectionId' = Undefined
    /\ protection' = NoProtection
    /\ instrumentation' = NoInstrumentation
    /\ fetched' = <<>>
    /\ delays' = 0
    /\ outcome' = "none"
    /\ error' = NoError
    /\ ret' = Undefined
    /\ polled' = "none"
    /\ UNCHANGED <<remoteRun, invocations, remoteProtections,
                   orchestrators, runs>>

----------------------------------------------------------------------------
(* updateApplicationSources *)

\* where the caller goes on once updateApplicationSources has returned
AfterUpdateSources(w, c) ==
    IF w = "protect"
        THEN IF NeedsUpdate(c) THEN "updateApplication"
                               ELSE "createApplicationProtection"
        ELSE "startInstrumentation"

\* updateApplicationSources without the check of the profiling state
UpdateApplicationSourcesUnguarded(w, c, prof, out) ==
    IF HasNewSources(c)
        THEN Awaits("removeSourceFromApplication", out)
        ELSE Awaits(AfterUpdateSources(w, c), out)

\* the synchronous head of updateApplicationSources, up to its first await
\* (or to its return when no new sources are given)
UpdateApplicationSources(w, c, prof, out) ==
    IF HasNewSources(c)
        THEN IF ReadyProfilingPrevents(prof)
                THEN Throws(ReadyProfilingMessage, out)
                ELSE Awaits("removeSourceFromApplication", out)
        ELSE Awaits(AfterUpdateSources(w, c), out)

\* await removeSourceFromApplication, errorHandler, then the bundle is
\* zipped from the files or from the inline sources
RemoveSourceFromApplication ==
    /\ pc = "removeSourceFromApplication"
    /\ Issue("post", "removeSourceFromApplication", Undefined, Undefined)
    /\ \/ \E res \in Responses :
            /\ AnsweredWith(res)
            /\ Checked(res, "addApplicationSource", console)
            /\ source' = IF ErrorHandler(res) # NoError THEN source
                         ELSE Bundle(cfg)
       \/ /\ Rejects
          /\ UNCHANGED source
    /\ UNCHANGED <<wf, cfg, destCallback, requested, remoteRun, appProfiling,
                   protectionId, protection, instrumentation, fetched, delays,
                   invocations, polled, remoteProtections,
                   orchestrators, runs>>

\* await addApplicationSource, errorHandler, return source
AddApplicationSource ==
    /\ pc = "addApplicationSource"
    /\ Issue("post", "addApplicationSource", source.filename,
                  Undefined)
    /\ \/ \E res \in Responses :
            /\ AnsweredWith(res)
            /\ Checked(res, AfterUpdateSources(wf, cfg), console)
       \/ Rejects
    /\ UNCHANGED <<wf, cfg, destCallback, requested, remoteRun, appProfiling,
                   source, protectionId, protection, instrumentation, fetched,
                   delays, invocations, polled, remoteProtections,
                   orchestrators, runs>>

----------------------------------------------------------------------------
(* protectAndDownload *)

\* from the call to the first await: the two checks, then the profiling
\* probe unless skipSources
ProtectAndDownload ==
    \E a \in Arguments(PassingProtectConfigs) :
      LET c == a[1]
          cb == a[2]
      IN
        /\ Begin("protect", c, cb, Undefined)
        /\ IF PreconditionError(c, cb) # NoError
              THEN Throws(PreconditionError(c, cb), <<>>)
           ELSE IF UpdatesSources(c)
              THEN Awaits("getApplicationProfiling", <<>>)
           ELSE Awaits(AfterUpdateSources("protect", c),
                       <<Printed("Update source files SKIPPED", <<>>)>>)

\* await getApplicationProfiling: a 404 is swallowed, any other failure is
\* rethrown; then either the deletion or updateApplicationSources
GetApplicationProfiling ==
    /\ pc = "getApplicationProfiling"
    /\ wf = "protect"
    /\ Issue("get", "getApplicationProfiling", Undefined, Undefined)
    /\ \/ /\ Answered("200")
          /\ ActiveRun(remoteRun)
          /\ appProfiling' = [defined |-> TRUE, id |-> remoteRun.id,
                              state |-> remoteRun.state]
          /\ IF cfg.removeProfilingData
                THEN Awaits("deleteProfiling", console)
                ELSE UpdateApplicationSources(wf, cfg, appProfiling', console)
       \/ \E statusCode \in ProbeFailures(remoteRun) :
            /\ Answered(statusCode)
            /\ appProfiling' = NoProfiling
            /\ IF ProbeCatch(statusCode) = "throw"
                  THEN Throws(Rejected(statusCode), console)
                  ELSE UpdateApplicationSources(wf, cfg, NoProfiling,
                                                console)
    /\ UNCHANGED <<wf, cfg, destCallback, requested, remoteRun, source,
                   protectionId, protection, instrumentation, fetched, delays,
                   invocations, polled, remoteProtections,
                   orchestrators, runs>>

\* await deleteProfiling, mark the local object DELETED, then
\* updateApplicationSources
DeleteProfiling ==
    /\ pc = "deleteProfiling"
    /\ wf = "protect"
    /\ Issue("patch", "deleteProfiling", appProfiling.id, "DELETED")
    /\ \/ /\ Answered("200")
          /\ remoteRun' = [remoteRun EXCEPT !.state = "DELETED"]
          /\ appProfiling' = [appProfiling EXCEPT !.state = "DELETED"]
          /\ UpdateApplicationSources(wf, cfg, appProfiling', console)
       \/ /\ Rejects
          /\ UNCHANGED <<remoteRun, appProfiling>>
    /\ UNCHANGED <<wf, cfg, destCallback, requested, source, protectionId,
                   protection, instrumentation, fetched, delays, invocations,
                   polled, remoteProtections, orchestrators, runs>>

\* await updateApplication, errorHandler
UpdateApplication ==
    /\ pc = "updateApplication"
    /\ Issue("post", "updateApplication", Undefined, Undefined)
    /\ \/ \E res \in Responses :
            /\ AnsweredWith(res)
            /\ Checked(res, "createApplicationProtection", console)
       \/ Rejects
    /\ UNCHANGED <<wf, cfg, destCallback, requested, remoteRun, appProfiling,
                   source, protectionId, protection, instrumentation, fetched,
                   delays, invocations, polled, remoteProtections,
                   orchestrators, runs>>

\* await createApplicationProtection, errorHandler, keep the id
CreateApplicationProtection ==
    /\ pc = "createApplicationProtection"
    /\ Issue("post", "createApplicationProtection", Undefined,
                  IF BailOf(cfg) THEN "bail" ELSE "no bail")
    /\ \/ \E res \in Responses, id \in {ProtectionId(invocations)} :
            /\ AnsweredWith(res)
            /\ Checked(res, "getApplicationProtection", console)
            /\ protectionId' = IF ErrorHandler(res) # NoError
                                  THEN protectionId ELSE id
            /\ remoteProtections' =
                   IF ErrorHandler(res) # NoError
                      THEN remoteProtections
                      ELSE remoteProtections \cup {id}
       \/ /\ Rejects
          /\ UNCHANGED <<protectionId, remoteProtections>>
    /\ UNCHANGED <<wf, cfg, destCallback, requested, remoteRun, appProfiling,
                   source, protection, instrumentation, fetched, delays,
                   invocations, polled, orchestrators, runs>>

\* what protectAndDownload prints and decides once pollProtection returned
AfterPollProtection(p) ==
    LET growth == IF p.growthWarning
                     THEN <<Printed("Warning: file growth", <<>>)>> ELSE <<>>
        errs == SourcesErrors(p.sources)
        out == console \o growth
    IN  CASE ProtectionVerdict(p) = "errored" ->
                Throws("Protection failed. For more information visit: "
                           \o "https://app.jscrambler.com.",
                       out \o <<Printed("Global protection errors:", <<>>),
                                Printed(p.errorMessage, <<>>)>>
                           \o (IF Len(errs) > 0 THEN PrintSourcesErrors(errs)
                                                ELSE <<>>))
          [] ProtectionVerdict(p) = "bail" ->
                Throws("Your protection has failed.",
                       out \o PrintSourcesErrors(errs))
          [] ProtectionVerdict(p) = "warn" ->
                Awaits("downloadApplicationProtection",
                       out \o NonFatalWarnings(errs))
          [] OTHER ->
                Awaits("downloadApplicationProtection", out)

\* one round of pollProtection: await getApplicationProtection, then throw,
\* sleep or return to protectAndDownload
GetApplicationProtection ==
    /\ pc = "getApplicationProtection"
    /\ Issue("get", "getApplicationProtection", protectionId, Undefined)
    /\ \/ \E p \in ProtectionSnapshots :
            /\ Answered("200")
            /\ PollProtectionOnErrors(FALSE) = "classify"
            /\ fetched' = Append(fetched, p.state)
            /\ protection' = p
            /\ remoteProtections' =
                   IF p.state \in ProtectionTerminal
                      THEN remoteProtections \ {protectionId}
                      ELSE remoteProtections
            /\ CASE PollProtectionBranch(p.state) = "retry" ->
                       /\ Awaits("pollProtectionDelay", console)
                       /\ polled' = "none"
                 [] PollProtectionBranch(p.state) = "throw" ->
                       /\ Throws("Protection canceled by user", console)
                       /\ polled' = "threw"
                 [] OTHER ->
                       /\ AfterPollProtection(p)
                       /\ polled' = "returned"
       \/ \* the response carries an errors field
          /\ Answered("200")
          /\ IF PollProtectionOnErrors(TRUE) = "throw"
                THEN /\ Throws("Protection failed. For more information "
                                  \o "visit: https://app.jscrambler.com.",
                               console \o <<Printed("Error polling protection",
                                                    <<>>)>>)
                     /\ polled' = "threw"
                ELSE /\ Awaits("pollProtectionDelay",
                               console \o <<Printed("Error polling protection",
                                                    <<>>)>>)
                     /\ polled' = "none"
          /\ UNCHANGED <<fetched, protection, remoteProtections>>
       \/ /\ Rejects
          /\ polled' = "threw"
          /\ UNCHANGED <<fetched, protection, remoteProtections>>
    /\ UNCHANGED <<wf, cfg, destCallback, requested, remoteRun, appProfiling,
                   source, protectionId, instrumentation, delays, invocations,
                   orchestrators, runs>>

\* the 500 ms sleep between two fetches, then poll() again
PollProtectionDelay ==
    /\ pc = "pollProtectionDelay"
    /\ delays < MaxRetries
    /\ delays' = delays + 1
    /\ Awaits("getApplicationProtection", console)
    /\ UNCHANGED <<wf, cfg, destCallback, requested, calls, remoteRun,
                   appProfiling, source, protectionId, protection,
                   instrumentation, fetched, invocations, polled,
                   remoteProtections, orchestrators, runs>>

\* await downloadApplicationProtection, errorHandler, unzip, print and
\* return the protection id
DownloadApplicationProtection ==
    /\ pc = "downloadApplicationProtection"
    /\ Issue("get", "downloadApplicationProtection", protectionId,
                  Undefined)
    /\ \/ /\ Answered("200")
          /\ Returns(protectionId,
                     console \o <<Printed(protectionId, <<>>)>>)
       \/ Rejects
    /\ UNCHANGED <<wf, cfg, destCallback, requested, remoteRun, appProfiling,
                   source, protectionId, protection, instrumentation, fetched,
                   delays, invocations, polled, remoteProtections,
                   orchestrators, runs>>

----------------------------------------------------------------------------
(* instrumentAndDownload, startInstrumentation, pollInstrumentation *)

\* from the call to the first await: the two checks, then
\* updateApplicationSources (without appProfiling) unless skipSources
InstrumentAndDownload ==
    \E a \in Arguments(SourceConfigs) :
      LET c == a[1]
          cb == a[2]
      IN
        /\ Begin("instrument", c, cb, Undefined)
        /\ IF PreconditionError(c, cb) # NoError
              THEN Throws(PreconditionError(c, cb), <<>>)
           ELSE IF UpdatesSources(c)
              THEN UpdateApplicationSources("instrument", c, NoProfiling,
                                            <<>>)
           ELSE Awaits(AfterUpdateSources("instrument", c),
                       <<Printed("Update source files SKIPPED", <<>>)>>)

\* startInstrumentation: await getApplicationProfiling, 404 swallowed
StartInstrumentation ==
    /\ pc = "startInstrumentation"
    /\ Issue("get", "getApplicationProfiling", Undefined, Undefined)
    /\ \/ /\ Answered("200")
          /\ ActiveRun(remoteRun)
          /\ instrumentation' = [NoInstrumentation EXCEPT
                                    !.id = remoteRun.id,
                                    !.state = remoteRun.state]
          /\ Awaits(StartInstrumentationBranch(TRUE), console)
       \/ \E statusCode \in ProbeFailures(remoteRun) :
            /\ Answered(statusCode)
            /\ instrumentation' = NoInstrumentation
            /\ IF ProbeCatch(statusCode) = "throw"
                  THEN Throws(Rejected(statusCode), console)
                  ELSE Awaits(StartInstrumentationBranch(FALSE), console)
    /\ UNCHANGED <<wf, cfg, destCallback, requested, remoteRun, appProfiling,
                   source, protectionId, protection, fetched, delays,
                   invocations, polled, remoteProtections,
                   orchestrators, runs>>

\* startInstrumentation: await deleteProfiling of the run the probe found
DeletePreviousRun ==
    /\ pc = "deletePreviousRun"
    /\ Issue("patch", "deleteProfiling", instrumentation.id, "DELETED")
    /\ \/ /\ Answered("200")
          /\ remoteRun' = [remoteRun EXCEPT !.state = "DELETED"]
          /\ Awaits("createProfilingRun", console)
       \/ /\ Rejects
          /\ UNCHANGED remoteRun
    /\ UNCHANGED <<wf, cfg, destCallback, requested, appProfiling, source,
                   protectionId, protection, instrumentation, fetched, delays,
                   invocations, polled, remoteProtections,
                   orchestrators, runs>>

\* startInstrumentation: the post that creates the run; back in
\* instrumentAndDownload, errorHandler on its answer
CreateProfilingRun ==
    /\ pc = "createProfilingRun"
    /\ Issue("post", "createProfilingRun", Undefined, Undefined)
    /\ \/ \E res \in Responses, id \in RunIds \ {remoteRun.id} :
            /\ AnsweredWith(res)
            /\ Checked(res, "getInstrumentation", console)
            /\ IF ErrorHandler(res) # NoError
                  THEN UNCHANGED <<remoteRun, instrumentation>>
                  ELSE /\ remoteRun' = [id |-> id, state |-> "CREATED"]
                       /\ instrumentation' =
                              [NoInstrumentation EXCEPT
                                  !.id = id, !.state = "CREATED"]
       \/ /\ Rejects
          /\ UNCHANGED <<remoteRun, instrumentation>>
    /\ UNCHANGED <<wf, cfg, destCallback, requested, appProfiling, source,
                   protectionId, protection, fetched, delays, invocations,
                   polled, remoteProtections, orchestrators, runs>>

\* one round of pollInstrumentation: await getInstrumentation, then the
\* switch on the state
GetInstrumentation ==
    /\ pc = "getInstrumentation"
    /\ Issue("get", "getInstrumentation", instrumentation.id, Undefined)
    /\ \/ \E state \in InstrumentationStates :
          \E a \in InstrumentationAnswers(state) :
            LET i == FetchedInstrumentation(instrumentation.id, state, a)
                failed == WithInstrumentationErrors(i)
            IN  /\ AnsweredWith(IF PollInstrumentationBranch(state)
                                        = "errorHandler" /\ i.hasErrors
                                    THEN failed ELSE OkResponse)
                /\ fetched' = Append(fetched, state)
                /\ remoteRun' = [remoteRun EXCEPT !.state = state]
                /\ CASE PollInstrumentationBranch(state) = "throw" ->
                           /\ Throws("Protection canceled by user", console)
                           /\ instrumentation' = i
                           /\ polled' = "threw"
                     [] PollInstrumentationBranch(state) = "errorHandler" ->
                           IF ~i.hasErrors
                              THEN /\ Throws("TypeError: Cannot read "
                                             \o "property 'concat' of "
                                             \o "undefined", console)
                                   /\ instrumentation' = i
                                   /\ polled' = "threw"
                              ELSE /\ Checked(failed,
                                        "downloadApplicationInstrumented",
                                        console)
                                   /\ instrumentation' = failed
                                   /\ polled' =
                                         IF ErrorHandler(failed) # NoError
                                            THEN "threw" ELSE "returned"
                     [] PollInstrumentationBranch(state) = "return" ->
                           /\ Awaits("downloadApplicationInstrumented",
                                     console)
                           /\ instrumentation' = i
                           /\ polled' = "returned"
                     [] OTHER ->
                           /\ Awaits("pollInstrumentationDelay", console)
                           /\ instrumentation' = i
                           /\ polled' = "none"
       \/ /\ Rejects
          /\ polled' = "threw"
          /\ UNCHANGED <<fetched, remoteRun, instrumentation>>
    /\ UNCHANGED <<wf, cfg, destCallback, requested, appProfiling, source,
                   protectionId, protection, delays, invocations,
                   remoteProtections, orchestrators, runs>>

\* the 500 ms sleep between two fetches, then poll() again
PollInstrumentationDelay ==
    /\ pc = "pollInstrumentationDelay"
    /\ delays < MaxRetries
    /\ delays' = delays + 1
    /\ Awaits("getInstrumentation", console)
    /\ UNCHANGED <<wf, cfg, destCallback, requested, calls, remoteRun,
                   appProfiling, source, protectionId, protection,
                   instrumentation, fetched, invocations, polled,
                   remoteProtections, orchestrators, runs>>

\* the console.warn of instrumentAndDownload
UnprotectedWarning ==
    Printed("WARNING: DO NOT SEND THIS CODE TO "
                \o "PRODUCTION AS IT IS NOT PROTECTED", <<>>)

\* the closing lines without the warning
InstrumentedMessagesNoWarning ==
    <<Printed("Application was instrumented.", <<>>)>>

\* what instrumentAndDownload prints once the files are unzipped
InstrumentedMessages ==
    <<UnprotectedWarning, Printed("Application was instrumented.", <<>>)>>

\* await downloadApplicationInstrumented, errorHandler, unzip, the warning,
\* return the run id
DownloadApplicationInstrumented ==
    /\ pc = "downloadApplicationInstrumented"
    /\ Issue("get", "downloadApplicationInstrumented",
                  instrumentation.id, Undefined)
    /\ \/ /\ Answered("200")
          /\ Returns(instrumentation.id, console \o InstrumentedMessages)
       \/ Rejects
    /\ UNCHANGED <<wf, cfg, destCallback, requested, remoteRun, appProfiling,
                   source, protectionId, protection, instrumentation, fetched,
                   delays, invocations, polled, remoteProtections,
                   orchestrators, runs>>

----------------------------------------------------------------------------
(* setProfilingState *)

\* setProfilingState without the comparison: it always patches
SetProfilingStateBranchAlwaysPatch(previousState, state) == "patch"

\* setProfilingState with the comparison the wrong way round
SetProfilingStateBranchInverted(previousState, state) ==
    IF previousState # state THEN "return" ELSE "patch"

InstrumentFirstMessage ==
    "There is no active profiling run. Instrument your application first."

\* what setProfilingState does once it holds the current run
SetProfilingStateBranch(previousState, state) ==
    IF previousState = state THEN "return" ELSE "patch"

\* the value setProfilingState resolves to: both of its exits are a bare
\* `return`
SetProfilingStateResult(previousState) == Undefined

\* from the call to the first await
SetProfilingState ==
    \E a \in BOOLEAN, state \in ProfilingStates :
        /\ Begin("setProfilingState", [NoConfig EXCEPT !.applicationId = a],
                 FALSE, state)
        /\ Awaits("getProfilingRun", <<>>)

\* await client.get('/profiling-run'), 404 swallowed; no run is an error,
\* the requested state is a no-op
GetProfilingRun ==
    /\ pc = "getProfilingRun"
    /\ Issue("get", "getApplicationProfiling", Undefined, Undefined)
    /\ \/ /\ Answered("200")
          /\ ActiveRun(remoteRun)
          /\ instrumentation' = [NoInstrumentation EXCEPT
                                    !.id = remoteRun.id,
                                    !.state = remoteRun.state]
          /\ IF SetProfilingStateBranch(remoteRun.state, requested) = "return"
                THEN Returns(SetProfilingStateResult(remoteRun.state),
                             console \o
                             <<Printed("Profiling was already", <<>>)>>)
                ELSE Awaits("patchProfilingRun", console)
       \/ \E statusCode \in ProbeFailures(remoteRun) :
            /\ Answered(statusCode)
            /\ instrumentation' = NoInstrumentation
            /\ IF ProbeCatch(statusCode) = "throw"
                  THEN Throws(Rejected(statusCode), console)
                  ELSE Throws(InstrumentFirstMessage, console)
    /\ UNCHANGED <<wf, cfg, destCallback, requested, remoteRun, appProfiling,
                   source, protectionId, protection, fetched, delays,
                   invocations, polled, remoteProtections,
                   orchestrators, runs>>

\* await client.patch of the run with the requested state
PatchProfilingRun ==
    /\ pc = "patchProfilingRun"
    /\ Issue("patch", "setProfilingState", instrumentation.id,
                  requested)
    /\ \/ /\ Answered("200")
          /\ remoteRun' = [remoteRun EXCEPT !.state = requested]
          /\ Returns(SetProfilingStateResult(instrumentation.state),
                     console \o <<Printed("Profiling was", <<>>)>>)
       \/ /\ Rejects
          /\ UNCHANGED remoteRun
    /\ UNCHANGED <<wf, cfg, destCallback, requested, appProfiling, source,
                   protectionId, protection, instrumentation, fetched, delays,
                   invocations, polled, remoteProtections,
                   orchestrators, runs>>

----------------------------------------------------------------------------

Next ==
    \/ ProtectAndDownload
    \/ GetApplicationProfiling
    \/ DeleteProfiling
    \/ RemoveSourceFromApplication
    \/ AddApplicationSource
    \/ UpdateApplication
    \/ CreateApplicationProtection
    \/ GetApplicationProtection
    \/ PollProtectionDelay
    \/ DownloadApplicationProtection
    \/ InstrumentAndDownload
    \/ StartInstrumentation
    \/ DeletePreviousRun
    \/ CreateProfilingRun
    \/ GetInstrumentation
    \/ PollInstrumentationDelay
    \/ DownloadApplicationInstrumented
    \/ SetProfilingState
    \/ GetProfilingRun
    \/ PatchProfilingRun
    \/ Settled

Spec == Init /\ [][Next]_vars

----------------------------------------------------------------------------
(* Reading the transport's record *)

CallsOf(kinds) == { i \in DOMAIN calls : calls[i].kind \in kinds }

Count(kind) == Cardinality(CallsOf({kind}))

Last(seq) == seq[Len(seq)]

----------------------------------------------------------------------------
(* C1 *)

\* C1: an invocation of protectAndDownload or instrumentAndDownload whose
\* configuration lacks applicationId, or lacks filesDest while no
\* destCallback is passed, has thrown and the transport has recorded no call.
C1_PreconditionBeforeNetwork ==
    ( /\ wf \in {"protect", "instrument"}
      /\ \/ ~cfg.applicationId
         \/ ~cfg.filesDest /\ ~destCallback )
    => ( /\ pc = "done"
         /\ outcome = "threw"
         /\ error \in {"Required *applicationId* not provided",
                       "Required *filesDest* not provided"}
         /\ calls = <<>> )

C1_Witness ==
    /\ wf = "protect"
    /\ cfg.applicationId
    /\ ~cfg.filesDest
    /\ ~destCallback
    /\ HasNewSources(cfg)
    /\ outcome = "threw"

----------------------------------------------------------------------------
(* C2 *)

\* C2: while protectAndDownload runs against a READY profiling run with new
\* sources and neither removeProfilingData nor skipSources, the only call
\* it ever issues is the profiling probe, and once the probe is answered
\* the workflow has thrown.
C2_ReadyProfilingBlocksUpdate ==
    ( /\ wf = "protect"
      /\ PreconditionError(cfg, destCallback) = NoError
      /\ ActiveRun(remoteRun)
      /\ remoteRun.state = "READY"
      /\ HasNewSources(cfg)
      /\ ~cfg.removeProfilingData
      /\ ~cfg.skipSources )
    => ( /\ CallsOf({"removeSourceFromApplication", "addApplicationSource",
                     "updateApplication", "createApplicationProtection",
                     "downloadApplicationProtection"}) = {}
         /\ calls # <<>> => pc = "done" /\ outcome = "threw" )

C2_Witness ==
    /\ wf = "protect"
    /\ appProfiling.defined
    /\ appProfiling.state = "READY"
    /\ cfg.filesSrc.defined
    /\ ~cfg.sources
    /\ error = ReadyProfilingMessage

----------------------------------------------------------------------------
(* C3 *)

\* C3: in pollProtection every fetch but the last one saw a non-terminal
\* state, each of them was followed by one delay, there are as many fetches
\* as states seen, and a terminal state ends the loop: after
\* running, running, finished the protection is returned after two
\* delays, after running, canceled the cancellation error is thrown after
\* one.
C3_PollProtectionRounds ==
    wf = "protect" =>
      LET n == Len(fetched)
      IN  /\ \A i \in 1..(n - 1) : fetched[i] \notin ProtectionTerminal
          /\ Count("getApplicationProtection") \in {n, n + 1}
          /\ pc = "pollProtectionDelay" =>
                /\ delays = n - 1
                /\ Count("getApplicationProtection") = n
          /\ pc = "getApplicationProtection" => delays = n
          /\ (n > 0 /\ Last(fetched) \in ProtectionTerminal) =>
                /\ delays = n - 1
                /\ Count("getApplicationProtection") = n
                /\ pc \in {"downloadApplicationProtection", "done"}
                /\ Last(fetched) = "canceled" =>
                      /\ outcome = "threw"
                      /\ error = "Protection canceled by user"
                /\ Last(fetched) # "canceled" =>
                      /\ protection.state = Last(fetched)
                      /\ error # "Protection canceled by user"
          /\ fetched = <<"running", "running", "finished">> => delays = 2
          /\ fetched = <<"running", "canceled">> => delays = 1

C3_Witness ==
    /\ wf = "protect"
    /\ fetched = <<"running", "running", "finished">>
    /\ delays = 2
    /\ pc = "downloadApplicationProtection"

----------------------------------------------------------------------------
(* C4 *)

\* C4: with bail true or left at its default, a job polled as finished
\* with at least one per-source error message makes protectAndDownload
\* throw without any download call.
C4_BailStopsDownload ==
    ( /\ wf = "protect"
      /\ BailOf(cfg)
      /\ protection.state = "finished"
      /\ Len(SourcesErrors(protection.sources)) > 0 )
    => ( /\ pc = "done" => outcome = "threw"
         /\ Count("downloadApplicationProtection") = 0 )

----------------------------------------------------------------------------
(* C5 *)

\* C5: with bail false, a job polled as finished with per-source errors
\* does not make protectAndDownload fail: unless the download request
\* itself is rejected, the invocation ends by returning the id of the job
\* creation after one download call for that id, each error having been
\* printed as a non-fatal warning.
C5_NoBailDownloads ==
    ( /\ wf = "protect"
      /\ ~BailOf(cfg)
      /\ protection.state = "finished"
      /\ Len(SourcesErrors(protection.sources)) > 0
      /\ pc = "done"
      /\ error # Rejected("500") )
    => ( /\ outcome = "returned"
         /\ ret = protectionId
         /\ Count("downloadApplicationProtection") = 1
         /\ \A i \in CallsOf({"downloadApplicationProtection"}) :
                calls[i].id = protectionId
         /\ Cardinality({ i \in DOMAIN console :
                            console[i].text = "Non-fatal error" })
                = Len(SourcesErrors(protection.sources)) )

----------------------------------------------------------------------------
(* C6 *)

\* C6: a job polled as errored makes protectAndDownload throw without any
\* download call, whatever bail is and whether or not sources have errors,
\* and the last lines printed are the global error followed, when there
\* are per-source errors, by the report of all of them.
C6_ErroredFailsAfterReport ==
    ( /\ wf = "protect"
      /\ protection.state = "errored" )
    => LET errs == SourcesErrors(protection.sources)
           n == Len(console)
           g == IF errs = <<>> THEN n - 1 ELSE n - 2
       IN  /\ pc = "done"
           /\ outcome = "threw"
           /\ error = "Protection failed. For more information visit: "
                          \o "https://app.jscrambler.com."
           /\ Count("downloadApplicationProtection") = 0
           /\ g >= 1
           /\ console[g].text = "Global protection errors:"
           /\ console[g + 1].text = protection.errorMessage
           /\ errs # <<>> =>
                 /\ console[n].text = "Application sources errors:"
                 /\ console[n].detail = errs

C6_Witness ==
    /\ wf = "protect"
    /\ protection.state = "errored"
    /\ ~protection.bail
    /\ ~BailOf(cfg)
    /\ Len(SourcesErrors(protection.sources)) = 2
    /\ outcome = "threw"

----------------------------------------------------------------------------
(* C7 *)

\* C7: when setProfilingState finds the run already in the requested
\* state it returns without having issued a patch or post call, and the
\* remote run is as the probe found it.
C7_SameStateIsNoOp ==
    ( /\ wf = "setProfilingState"
      /\ instrumentation.id # Undefined
      /\ instrumentation.state = requested )
    => ( /\ pc = "done"
         /\ outcome = "returned"
         /\ \A i \in DOMAIN calls : calls[i].method = "get"
         /\ remoteRun = [id |-> instrumentation.id, state |-> requested] )

C7_Witness ==
    /\ wf = "setProfilingState"
    /\ invocations = 2
    /\ instrumentation.state = requested
    /\ requested = "READY"
    /\ outcome = "returned"

----------------------------------------------------------------------------
(* C8 *)

\* C8: setProfilingState resolves to the state the run had before the
\* call, on the no-op path and on the transition path.
C8_ReturnsPreviousState ==
    ( /\ wf = "setProfilingState"
      /\ pc = "done"
      /\ outcome = "returned" )
    => ret = instrumentation.state

----------------------------------------------------------------------------
(* C9 *)

\* C9: when the probe of setProfilingState is answered not-found the
\* invocation throws the 'instrument first' error and the probe stays its
\* only call; with a run in another state than the requested one it issues
\* no patch before the probe's answer and exactly one after, for that run's
\* id and with the requested state.
C9_PatchOnlyOnTransition ==
    wf = "setProfilingState" =>
      /\ (calls # <<>> /\ calls[1].statusCode = "404") =>
            /\ pc = "done"
            /\ outcome = "threw"
            /\ error = InstrumentFirstMessage
            /\ Len(calls) = 1
            /\ calls[1].method = "get"
      /\ (instrumentation.id # Undefined
            /\ instrumentation.state # requested) =>
            /\ pc \in {"patchProfilingRun", "done"}
            /\ pc = "patchProfilingRun" =>
                  \A i \in DOMAIN calls : calls[i].method = "get"
            /\ pc = "done" =>
                  /\ Cardinality({ i \in DOMAIN calls :
                                     calls[i].method = "patch" }) = 1
                  /\ Last(calls).method = "patch"
                  /\ Last(calls).id = instrumentation.id
                  /\ Last(calls).state = requested

C9_Witness ==
    /\ wf = "setProfilingState"
    /\ instrumentation.state = "RUNNING"
    /\ requested = "READY"
    /\ remoteRun.state = "READY"
    /\ outcome = "returned"

----------------------------------------------------------------------------
(* C10 *)

\* C10: instrumentAndDownload issues the download of the instrumented
\* bundle only after a poll that ended in FINISHED_INSTRUMENTATION: a poll
\* ending in DELETED or FAILED_INSTRUMENTATION makes it throw without a
\* download call.
C10_DownloadOnlyWhenFinished ==
    ( /\ wf = "instrument"
      /\ fetched # <<>>
      /\ Last(fetched) \in {"DELETED", "FAILED_INSTRUMENTATION"} )
    => ( /\ pc = "done" => outcome = "threw"
         /\ Count("downloadApplicationInstrumented") = 0 )

----------------------------------------------------------------------------
(* C11 *)

\* the configuration supplies one of the five options that make
\* protectAndDownload update the application
SuppliesUpdateTrigger ==
    \/ cfg.params
    \/ cfg.applicationTypes
    \/ cfg.languageSpecifications
    \/ cfg.browsers
    \/ cfg.areSubscribersOrdered

\* the parameter-update calls recorded by the time the job creation is
\* due or issued: exactly one, answered without a transport failure and
\* recorded before any job-creation call, when `triggered`; none otherwise
UpdateCallsAsTriggered(triggered) ==
    /\ Count("updateApplication") <= 1
    /\ ~triggered => Count("updateApplication") = 0
    /\ ( /\ triggered
         /\ \/ pc = "createApplicationProtection"
            \/ Count("createApplicationProtection") > 0 )
       => /\ Count("updateApplication") = 1
          /\ \A i \in CallsOf({"updateApplication"}) :
                /\ calls[i].statusCode = "200"
                /\ \A j \in CallsOf({"createApplicationProtection"}) : i < j

\* C11 as stated: in protectAndDownload exactly one parameter-update call is
\* issued, and has completed before the job-creation call, whenever the
\* configuration supplies transformation parameters, application types,
\* language specifications, browser targets, subscriber ordering or a
\* source-maps flag; when none of the six is supplied no parameter-update
\* call is issued.
C11_UpdateOnAnyOfSix ==
    wf = "protect" =>
        UpdateCallsAsTriggered(SuppliesUpdateTrigger \/ cfg.sourceMaps)

\* C11 (amended): in protectAndDownload exactly one parameter-update call is
\* issued, and has completed before the job-creation call, whenever the
\* configuration supplies transformation parameters, application types,
\* language specifications, browser targets or subscriber ordering; when
\* none of these five is supplied no parameter-update call is issued, a
\* source-maps flag alone included.
C11_UpdateOnAnyOfFive ==
    wf = "protect" => UpdateCallsAsTriggered(SuppliesUpdateTrigger)

C11_Witness ==
    /\ wf = "protect"
    /\ cfg.browsers
    /\ ~cfg.sourceMaps
    /\ Len(calls) = 2
    /\ calls[1].kind = "updateApplication"
    /\ calls[2].kind = "createApplicationProtection"
    /\ pc = "getApplicationProtection"

----------------------------------------------------------------------------
(* C12 *)

\* the place of each call of protectAndDownload in the order of its steps
StepOf(kind) ==
    CASE kind = "getApplicationProfiling" -> 1
      [] kind = "deleteProfiling" -> 2
      [] kind = "removeSourceFromApplication" -> 3
      [] kind = "addApplicationSource" -> 4
      [] kind = "updateApplication" -> 5
      [] kind = "createApplicationProtection" -> 6
      [] kind = "getApplicationProtection" -> 7
      [] kind = "downloadApplicationProtection" -> 8
      [] OTHER -> 0

\* the answer to calls[i] ends the workflow: the transport rejected the call
\* with a status that is not swallowed, or errorHandler threw on the answer
EndsWorkflow(i) ==
    \/ calls[i].thrown # NoError
    \/ /\ calls[i].statusCode # "200"
       /\ ~( /\ calls[i].kind = "getApplicationProfiling"
             /\ ProbeCatch(calls[i].statusCode) = "undefined" )

----------------------------------------------------------------------------
(* C13 *)

\* C13: a probe for the profiling run that is answered 404 leaves the
\* workflow running as if no run existed: protectAndDownload holds no
\* appProfiling, issues no deletion and goes on to the source update or the
\* job, startInstrumentation issues no deletion and goes on to create the
\* run, setProfilingState reports that there is no active run.  A probe that
\* fails with another status is the last call of the invocation, which has
\* thrown that failure.
C13_OnlyNotFoundIsSwallowed ==
    \A i \in CallsOf({"getApplicationProfiling"}) :
      /\ calls[i].statusCode \notin {"200", "404"}
            => /\ i = Len(calls)
               /\ pc = "done"
               /\ outcome = "threw"
               /\ error = Rejected(calls[i].statusCode)
      /\ calls[i].statusCode = "404"
            => /\ Count("deleteProfiling") = 0
               /\ wf = "protect"
                     => /\ appProfiling = NoProfiling
                        /\ i = Len(calls)
                              => /\ outcome = "none"
                                 /\ pc = IF HasNewSources(cfg)
                                            THEN "removeSourceFromApplication"
                                         ELSE IF SuppliesUpdateTrigger
                                            THEN "updateApplication"
                                         ELSE "createApplicationProtection"
               /\ (wf = "instrument" /\ i = Len(calls))
                     => /\ outcome = "none"
                        /\ pc = "createProfilingRun"
               /\ wf = "setProfilingState"
                     => /\ i = Len(calls)
                        /\ outcome = "threw"
                        /\ error = InstrumentFirstMessage

C13_Witness ==
    /\ wf = "protect"
    /\ HasNewSources(cfg)
    /\ calls # <<>>
    /\ calls[1].kind = "getApplicationProfiling"
    /\ calls[1].statusCode = "404"
    /\ Count("createApplicationProtection") = 1

----------------------------------------------------------------------------
(* C14 *)

\* the configuration and validation failures of protectAndDownload
ValidationErrors ==
    {"Required *applicationId* not provided",
     "Required *filesDest* not provided",
     ReadyProfilingMessage}

\* C14 as stated: every configuration or validation failure of
\* protectAndDownload, the ready-profiling failure included, is raised
\* before any network call has been made.
C14_ValidationBeforeNetwork ==
    (wf = "protect" /\ error \in ValidationErrors) => calls = <<>>

\* C14 (amended): a missing applicationId or filesDest fails
\* protectAndDownload before any network call; the ready-profiling failure
\* is raised once the profiling probe, a read-only call, has answered with a
\* READY run, and before any call that changes remote state: the probe is
\* the only call recorded, the run is still READY and no bundle was built.
C14_ValidationBeforeMutation ==
    wf = "protect" =>
      /\ PreconditionError(cfg, destCallback) # NoError
            => /\ outcome = "threw"
               /\ error = PreconditionError(cfg, destCallback)
               /\ calls = <<>>
      /\ ( /\ appProfiling.defined
           /\ appProfiling.state = "READY"
           /\ HasNewSources(cfg)
           /\ ~cfg.removeProfilingData )
            => /\ outcome = "threw"
               /\ error = ReadyProfilingMessage
      /\ error = ReadyProfilingMessage
            => /\ Len(calls) = 1
               /\ calls[1].method = "get"
               /\ calls[1].kind = "getApplicationProfiling"
               /\ calls[1].statusCode = "200"
               /\ remoteRun.state = "READY"
               /\ source = NoSource

C14_Witness ==
    /\ wf = "protect"
    /\ cfg.sources
    /\ error = ReadyProfilingMessage
    /\ Len(calls) = 1
    /\ remoteRun.state = "READY"

----------------------------------------------------------------------------
(* C15 *)

\* before the run is created, the active run is deleted: the creation
\* follows a probe answered 404, or the deletion of the run a probe found,
\* and no deletion follows a probe that found nothing
DeletesActiveRunFirst ==
    wf = "instrument" =>
      /\ pc = "createProfilingRun" => ~ActiveRun(remoteRun)
      /\ Count("createProfilingRun") <= 1
      /\ \A i \in CallsOf({"createProfilingRun"}) :
            /\ i > 1
            /\ \/ /\ calls[i - 1].kind = "getApplicationProfiling"
                  /\ calls[i - 1].statusCode = "404"
               \/ /\ i > 2
                  /\ calls[i - 1].kind = "deleteProfiling"
                  /\ calls[i - 1].statusCode = "200"
                  /\ calls[i - 1].id \in RunIds
                  /\ calls[i - 2].kind = "getApplicationProfiling"
                  /\ calls[i - 2].statusCode = "200"
      /\ \A i \in CallsOf({"deleteProfiling"}) :
            /\ i > 1
            /\ calls[i - 1].kind = "getApplicationProfiling"
            /\ calls[i - 1].statusCode = "200"

\* C15 as stated: at most one outstanding job of each kind exists for the
\* application: instrumentAndDownload deletes the active run, if any,
\* before it creates a run, and when protectAndDownload is about to create a
\* protection no earlier protection of the application is outstanding.
C15_OneOutstandingJobPerKind ==
    /\ DeletesActiveRunFirst
    /\ Cardinality(remoteProtections) <= 1
    /\ pc = "createApplicationProtection" => remoteProtections = {}

\* C15 (amended): instrumentAndDownload deletes the active profiling run, if
\* the probe found one, before it creates a run, and issues no deletion
\* when the probe answers 404; no workflow ever calls removeProtection or
\* cancelProtection, so protectAndDownload creates a protection whether or
\* not an earlier one is still outstanding.
C15_OneActiveRunOnly ==
    /\ DeletesActiveRunFirst
    /\ \A i \in DOMAIN calls :
          calls[i].kind \notin {"removeProtection", "cancelProtection"}

C15_Witness ==
    /\ wf = "instrument"
    /\ invocations = 2
    /\ Count("deleteProfiling") = 1
    /\ Count("createProfilingRun") = 1
    /\ remoteRun.state = "CREATED"
    /\ remoteProtections # {}

----------------------------------------------------------------------------
(* C16 *)

\* C16: when the configuration gives both inline sources and a non-empty
\* filesSrc, the bundle of either workflow is the archive of the inline
\* sources, never the archive of the globbed files, and the one upload
\* there is carries it as application.zip with extension zip.
C16_InlineSourcesWin ==
    ( /\ wf \in {"protect", "instrument"}
      /\ cfg.sources
      /\ cfg.filesSrc.defined
      /\ Len(cfg.filesSrc.items) > 0 )
    => ( /\ source.defined
            => source = [defined |-> TRUE, filename |-> "application.zip",
                         extension |-> "zip",
                         content |-> "zipSources(sources)"]
         /\ pc = "addApplicationSource" => source.defined
         /\ Count("addApplicationSource") <= 1
         /\ \A i \in CallsOf({"addApplicationSource"}) :
               /\ source.defined
               /\ calls[i].id = "application.zip" )

C16_Witness ==
    /\ wf = "instrument"
    /\ cfg.sources
    /\ cfg.filesSrc.defined
    /\ Len(cfg.filesSrc.items) > 0
    /\ Count("addApplicationSource") = 1
    /\ source.content = "zipSources(sources)"
    /\ pc = "startInstrumentation"

----------------------------------------------------------------------------
(* C17 *)

\* C17: with neither inline sources nor a non-empty filesSrc, no
\* source-removal and no upload call is ever issued, no bundle is built and
\* the ready-profiling failure is never raised; once the probe of
\* protectAndDownload has answered (and no deletion is due), READY run or
\* not, the workflow is at the parameter update or the job creation, and
\* instrumentAndDownload is at startInstrumentation before its first call.
C17_NoSourcesIsNoOp ==
    ( /\ wf \in {"protect", "instrument"}
      /\ ~cfg.sources
      /\ ~(cfg.filesSrc.defined /\ Len(cfg.filesSrc.items) > 0) )
    => ( /\ CallsOf({"removeSourceFromApplication",
                     "addApplicationSource"}) = {}
         /\ source = NoSource
         /\ error # ReadyProfilingMessage
         /\ ( /\ wf = "protect"
              /\ calls # <<>>
              /\ Last(calls).kind = "getApplicationProfiling"
              /\ \/ Last(calls).statusCode = "404"
                 \/ Last(calls).statusCode = "200" /\ ~cfg.removeProfilingData )
            => /\ outcome = "none"
               /\ pc \in {"updateApplication", "createApplicationProtection"}
         /\ ( /\ wf = "instrument"
              /\ PreconditionError(cfg, destCallback) = NoError
              /\ calls = <<>> )
            => /\ outcome = "none"
               /\ pc = "startInstrumentation" )

C17_Witness ==
    /\ wf = "protect"
    /\ ~cfg.sources
    /\ cfg.filesSrc.defined
    /\ cfg.filesSrc.items = <<>>
    /\ ~cfg.skipSources
    /\ ~cfg.removeProfilingData
    /\ appProfiling.defined
    /\ appProfiling.state = "READY"
    /\ Count("createApplicationProtection") = 1

----------------------------------------------------------------------------
(* C18 *)

\* C18: with skipSources, neither workflow ever issues a source-removal or
\* an upload call or builds a bundle; protectAndDownload issues no profiling
\* probe and no profiling deletion either, whatever removeProfilingData is,
\* and its first call is the parameter update or the job creation;
\* instrumentAndDownload goes straight to startInstrumentation, whose probe
\* is its first call.
C18_SkipSourcesLeavesSources ==
    ( /\ wf \in {"protect", "instrument"}
      /\ cfg.skipSources
      /\ PreconditionError(cfg, destCallback) = NoError )
    => ( /\ CallsOf({"removeSourceFromApplication",
                     "addApplicationSource"}) = {}
         /\ source = NoSource
         /\ console # <<>>
         /\ console[1] = Printed("Update source files SKIPPED", <<>>)
         /\ wf = "protect"
               => /\ CallsOf({"getApplicationProfiling",
                              "deleteProfiling"}) = {}
                  /\ appProfiling = NoProfiling
                  /\ calls = <<>>
                        => pc \in {"updateApplication",
                                   "createApplicationProtection"}
                  /\ calls # <<>>
                        => calls[1].kind \in {"updateApplication",
                                              "createApplicationProtection"}
         /\ wf = "instrument"
               => /\ calls = <<>> => pc = "startInstrumentation"
                  /\ calls # <<>>
                        => calls[1].kind = "getApplicationProfiling" )

C18_Witness ==
    /\ wf = "protect"
    /\ cfg.skipSources
    /\ cfg.removeProfilingData
    /\ cfg.sources
    /\ ActiveRun(remoteRun)
    /\ remoteRun.state = "READY"
    /\ Count("createApplicationProtection") = 1
    /\ pc = "getApplicationProtection"

----------------------------------------------------------------------------
(* C19 *)

\* C19: in protectAndDownload with removeProfilingData, once the probe has
\* found a run, whatever its state, the next call is the deletion of that
\* run; every source-removal and upload call comes after the deletion was
\* answered, the ready-profiling failure is never raised, and a deletion
\* that fails is the last call of the invocation, which has thrown.
C19_DeletionBeforeRemoval ==
    ( /\ wf = "protect"
      /\ cfg.removeProfilingData
      /\ appProfiling.defined )
    => ( /\ error # ReadyProfilingMessage
         /\ Len(calls) = 1
               => /\ pc = "deleteProfiling"
                  /\ outcome = "none"
                  /\ appProfiling.state = remoteRun.state
         /\ Len(calls) >= 2
               => /\ calls[2].kind = "deleteProfiling"
                  /\ calls[2].method = "patch"
                  /\ calls[2].id = appProfiling.id
                  /\ calls[2].state = "DELETED"
         /\ (Len(calls) >= 2 /\ calls[2].statusCode = "200")
               => /\ appProfiling.state = "DELETED"
                  /\ remoteRun.state = "DELETED"
                  /\ Len(calls) = 2
                        => /\ outcome = "none"
                           /\ pc = IF cfg.sources
                                      \/ ( /\ cfg.filesSrc.defined
                                           /\ Len(cfg.filesSrc.items) > 0 )
                                      THEN "removeSourceFromApplication"
                                   ELSE IF SuppliesUpdateTrigger
                                      THEN "updateApplication"
                                   ELSE "createApplicationProtection"
         /\ (Len(calls) >= 2 /\ calls[2].statusCode # "200")
               => /\ Len(calls) = 2
                  /\ pc = "done"
                  /\ outcome = "threw"
                  /\ appProfiling.state # "DELETED"
         /\ \A i \in CallsOf({"removeSourceFromApplication",
                              "addApplicationSource"}) : i > 2 )

C19_Witness ==
    /\ wf = "protect"
    /\ cfg.removeProfilingData
    /\ appProfiling.defined
    /\ Len(calls) = 4
    /\ calls[2].kind = "deleteProfiling"
    /\ calls[3].kind = "removeSourceFromApplication"
    /\ calls[4].kind = "addApplicationSource"
    /\ pc = "createApplicationProtection"

----------------------------------------------------------------------------
(* C20 *)

ProtectionFailedMessage ==
    "Protection failed. For more information visit: "
        \o "https://app.jscrambler.com."

\* C20 as stated: pollProtection returns a protection only when the fetched
\* state is finished, throws when it is errored, and throws the
\* cancellation error when it is canceled.
C20_PollFailsOnErrored ==
    (wf = "protect" /\ fetched # <<>>) =>
      /\ polled = "returned" => Last(fetched) = "finished"
      /\ Last(fetched) = "finished" => polled = "returned"
      /\ Last(fetched) = "errored" => polled = "threw"
      /\ Last(fetched) = "canceled"
            => /\ polled = "threw"
               /\ error = "Protection canceled by user"

\* C20 (amended): pollProtection returns the fetched protection when the
\* state is finished and also when it is errored, and throws the
\* cancellation error when it is canceled; for errored it is
\* protectAndDownload that, with the returned protection, prints the errors
\* and throws the failure, without a download.
C20_PollReturnsErrored ==
    wf = "protect" =>
      /\ polled = "returned"
            => /\ fetched # <<>>
               /\ Last(fetched) \in {"finished", "errored"}
               /\ protection.state = Last(fetched)
      /\ fetched # <<>> =>
            /\ Last(fetched) \in {"finished", "errored"}
                  => polled = "returned"
            /\ Last(fetched) = "canceled"
                  => /\ polled = "threw"
                     /\ outcome = "threw"
                     /\ error = "Protection canceled by user"
            /\ Last(fetched) = "errored"
                  => /\ pc = "done"
                     /\ outcome = "threw"
                     /\ error = ProtectionFailedMessage
                     /\ \E i \in DOMAIN console :
                           console[i] =
                               Printed("Global protection errors:", <<>>)
                     /\ Count("downloadApplicationProtection") = 0

C20_Witness ==
    /\ wf = "protect"
    /\ fetched = <<"running", "errored">>
    /\ polled = "returned"
    /\ outcome = "threw"
    /\ error = ProtectionFailedMessage

----------------------------------------------------------------------------
(* C21 *)

\* C21: in either workflow an upload call is recorded right after a
\* source-removal call that was answered and passed errorHandler, there is
\* at most one removal and one upload per invocation, and a removal whose
\* answer is an error is the last call: no bundle was built, no upload was
\* issued and the workflow has thrown.
C21_UploadAfterCheckedRemoval ==
    wf \in {"protect", "instrument"} =>
      /\ Count("removeSourceFromApplication") <= 1
      /\ Count("addApplicationSource") <= 1
      /\ \A i \in CallsOf({"addApplicationSource"}) :
            /\ i > 1
            /\ calls[i - 1].kind = "removeSourceFromApplication"
            /\ calls[i - 1].statusCode = "200"
            /\ calls[i - 1].thrown = NoError
            /\ source = Bundle(cfg)
      /\ \A r \in CallsOf({"removeSourceFromApplication"}) :
            IF calls[r].statusCode = "200" /\ calls[r].thrown = NoError
               THEN /\ source.defined
                    /\ r = Len(calls)
                          => pc = "addApplicationSource" /\ outcome = "none"
               ELSE /\ r = Len(calls)
                    /\ source = NoSource
                    /\ pc = "done"
                    /\ outcome = "threw"
      /\ source.defined => Count("removeSourceFromApplication") = 1

C21_Witness ==
    /\ wf = "protect"
    /\ ~cfg.sources
    /\ Len(calls) = 3
    /\ calls[1].statusCode = "404"
    /\ calls[2].kind = "removeSourceFromApplication"
    /\ calls[3].kind = "addApplicationSource"
    /\ calls[3].statusCode = "200"
    /\ source.content = "zip(filesSrc)"

----------------------------------------------------------------------------
(* The poll loops against a remote job that ends on its own *)

\* the remote service brings the protection being polled to a terminal
\* state
RemoteProtectionEnds ==
    /\ pc \in {"getApplicationProtection", "pollProtectionDelay"}
    /\ protectionId \in remoteProtections
    /\ remoteProtections' = remoteProtections \ {protectionId}
    /\ UNCHANGED <<pc, wf, cfg, destCallback, requested, calls, console,
                   remoteRun, appProfiling, source, protectionId, protection,
                   instrumentation, fetched, delays, outcome, error, ret,
                   invocations, polled, orchestrators, runs>>

\* the remote service brings the profiling run being polled to a terminal
\* state
RemoteRunEnds ==
    /\ pc \in {"getInstrumentation", "pollInstrumentationDelay"}
    /\ remoteRun.state \notin InstrumentationTerminal
    /\ \E state \in InstrumentationTerminal :
          remoteRun' = [remoteRun EXCEPT !.state = state]
    /\ UNCHANGED <<pc, wf, cfg, destCallback, requested, calls, console,
                   appProfiling, source, protectionId, protection,
                   instrumentation, fetched, delays, outcome, error, ret,
                   invocations, polled, remoteProtections,
                   orchestrators, runs>>

\* a round of pollProtection whose fetch, when it is answered with a
\* protection, sees the state the remote job is in
FetchRemoteProtection ==
    /\ GetApplicationProtection
    /\ fetched' # fetched
          => ( Last(fetched') \in ProtectionTerminal
                  <=> protectionId \notin remoteProtections )

\* a round of pollInstrumentation whose fetch, when it is answered with a
\* run, sees the state the remote run is in
FetchRemoteInstrumentation ==
    /\ GetInstrumentation
    /\ fetched' # fetched => Last(fetched') = remoteRun.state

\* the steps of the running workflow: the continuations the event loop
\* runs once the awaited call or timer has settled
WorkflowStep ==
    \/ GetApplicationProfiling
    \/ DeleteProfiling
    \/ RemoveSourceFromApplication
    \/ AddApplicationSource
    \/ UpdateApplication
    \/ CreateApplicationProtection
    \/ FetchRemoteProtection
    \/ PollProtectionDelay
    \/ DownloadApplicationProtection
    \/ StartInstrumentation
    \/ DeletePreviousRun
    \/ CreateProfilingRun
    \/ FetchRemoteInstrumentation
    \/ PollInstrumentationDelay
    \/ DownloadApplicationInstrumented
    \/ GetProfilingRun
    \/ PatchProfilingRun

PollNext ==
    \/ ProtectAndDownload
    \/ InstrumentAndDownload
    \/ SetProfilingState
    \/ WorkflowStep
    \/ RemoteProtectionEnds
    \/ RemoteRunEnds

\* one invocation from each initial state: every awaited call is answered
\* and every timer fires; nothing is assumed of the remote job
PollSpec == Init /\ [][PollNext]_vars /\ WF_vars(WorkflowStep)

----------------------------------------------------------------------------
(* C22 *)

InPollLoop ==
    pc \in {"getApplicationProtection", "pollProtectionDelay",
            "getInstrumentation", "pollInstrumentationDelay"}

\* the remote job of the running workflow is in a terminal state
JobTerminal ==
    IF wf = "protect"
        THEN protectionId \notin remoteProtections
        ELSE remoteRun.state \in InstrumentationTerminal

\* the record of delays is full: the loop itself has no such limit
RecordFull ==
    /\ pc \in {"pollProtectionDelay", "pollInstrumentationDelay"}
    /\ delays = MaxRetries

\* the last fetch was rejected, or answered with an errors field
FetchFailed ==
    /\ calls # <<>>
    /\ \/ Last(calls).statusCode # "200"
       \/ /\ console # <<>>
          /\ Last(console) = Printed("Error polling protection", <<>>)

\* C22: once the remote job is in a terminal state, the poll loop that is
\* running stops, by returning or by throwing, and the workflow completes;
\* the loop is left only by a fetch that finds the job terminal or that
\* fails, and a delay is only ever followed by another fetch: while the job
\* is not terminal and the fetches succeed the loop goes on.
C22_PollLoopsStopOnlyOnTerminal ==
    /\ (InPollLoop /\ JobTerminal /\ ~RecordFull) ~> (polled # "none")
    /\ (InPollLoop /\ JobTerminal /\ ~RecordFull) ~> (pc = "done")
    /\ [][ (InPollLoop /\ ~InPollLoop') => (JobTerminal \/ FetchFailed') ]_vars
    /\ [][ ( /\ pc \in {"getApplicationProtection", "getInstrumentation"}
             /\ pc' # pc
             /\ ~JobTerminal
             /\ ~FetchFailed' )
           => ( /\ pc' \in {"pollProtectionDelay", "pollInstrumentationDelay"}
                /\ polled' = "none" ) ]_vars
    /\ [][ (pc = "pollProtectionDelay" /\ pc' # pc)
              => pc' = "getApplicationProtection" ]_vars
    /\ [][ (pc = "pollInstrumentationDelay" /\ pc' # pc)
              => pc' = "getInstrumentation" ]_vars

C22_Witness ==
    /\ wf = "instrument"
    /\ fetched = <<"CREATED", "CREATED", "FINISHED_INSTRUMENTATION">>
    /\ delays = 2
    /\ pc = "done"
    /\ outcome = "returned"

----------------------------------------------------------------------------
(* C23 *)

\* the places of the warning in what the invocation printed
Warnings == { i \in DOMAIN console : console[i] = UnprotectedWarning }

----------------------------------------------------------------------------
(* C24 *)

\* the places where pollProtection printed the errors field of a response
PollingErrors ==
    { i \in DOMAIN console :
        console[i] = Printed("Error polling protection", <<>>) }

\* C24: a fetch of pollProtection answered with an errors field is the last
\* call of the invocation: the poll has thrown the failure at once, with no
\* delay after that fetch and no download, and the fetch gave no state.
\* Whenever the poll sleeps or has returned, no fetch was answered with an
\* errors field: each fetch made gave a state.
C24_ErrorsFieldStopsPolling ==
    wf = "protect" =>
      /\ PollingErrors # {}
            => /\ PollingErrors = {Len(console)}
               /\ pc = "done"
               /\ outcome = "threw"
               /\ polled = "threw"
               /\ error = ProtectionFailedMessage
               /\ Last(calls).kind = "getApplicationProtection"
               /\ Last(calls).statusCode = "200"
               /\ Count("getApplicationProtection") = Len(fetched) + 1
               /\ delays = Len(fetched)
               /\ \A i \in DOMAIN fetched : fetched[i] \notin ProtectionTerminal
               /\ Count("downloadApplicationProtection") = 0
      /\ (pc = "pollProtectionDelay" \/ polled = "returned")
            => /\ PollingErrors = {}
               /\ fetched # <<>>
               /\ Count("getApplicationProtection") = Len(fetched)

C24_Witness ==
    /\ wf = "protect"
    /\ PollingErrors # {}
    /\ fetched = <<"running">>
    /\ delays = 1
    /\ Count("getApplicationProtection") = 2
    /\ outcome = "threw"

----------------------------------------------------------------------------
(* Concurrent callers of instrumentAndDownload: each one runs the code of  *)
(* startInstrumentation and pollInstrumentation on its own, against the    *)
(* runs the remote service holds.  The configurations are valid and set    *)
(* skipSources, so that the first call of an invocation is the probe.      *)

\* the variables of the single caller, which stay as they start
single == <<pc, wf, cfg, destCallback, requested, calls, console, remoteRun,
            appProfiling, source, protectionId, protection, instrumentation,
            fetched, delays, outcome, error, ret, invocations, polled,
            remoteProtections>>

\* the runs of an application that a probe can find
ActiveRunsOf(app) ==
    { r \in DOMAIN runs :
        /\ runs[r].app = app
        /\ ActiveRun([id |-> ToString(r), state |-> runs[r].state]) }

\* a probe that is not scoped to the application
ProbeAnswersAnyApplication(app) ==
    UNION { ActiveRunsOf(a) : a \in Applications }

\* getApplicationProfiling(client, applicationId): a run of that
\* application, if it has any
ProbeAnswers(app) == ActiveRunsOf(app)

\* the id the remote service gives to the next run
NextRun == Cardinality({ r \in DOMAIN runs : runs[r].app # Undefined }) + 1

OrchestratorThrows(o, msg) ==
    orchestrators' = [orchestrators EXCEPT ![o].pc = "done",
                                            ![o].outcome = "threw",
                                            ![o].error = msg]

OrchestratorAwaits(o, next) ==
    orchestrators' = [orchestrators EXCEPT ![o].pc = next]

RECURSIVE InvokedBy(_)
InvokedBy(callers) ==
    IF callers = {} THEN 0
    ELSE LET o == CHOOSE c \in callers : TRUE
         IN  orchestrators[o].invocations + InvokedBy(callers \ {o})

\* how many times instrumentAndDownload has been called, by anyone
Invoked == InvokedBy(Orchestrators)

\* instrumentAndDownload is called for an application
ConcurrentInstrumentAndDownload(o) ==
    \E app \in Applications :
        /\ orchestrators[o].pc = "idle"
        /\ Invoked < MaxRuns
        /\ orchestrators' =
              [orchestrators EXCEPT
                  ![o] = [IdleOrchestrator EXCEPT
                             !.pc = "startInstrumentation",
                             !.app = app,
                             !.invocations =
                                 orchestrators[o].invocations + 1]]
        /\ UNCHANGED <<runs, single>>

\* startInstrumentation: the probe, 404 swallowed
ConcurrentStartInstrumentation(o) ==
    /\ orchestrators[o].pc = "startInstrumentation"
    /\ \/ \E r \in ProbeAnswers(orchestrators[o].app) :
            orchestrators' =
                [orchestrators EXCEPT
                    ![o].found = r,
                    ![o].pc = StartInstrumentationBranch(TRUE)]
       \/ /\ ProbeAnswers(orchestrators[o].app) = {}
          /\ ProbeCatch("404") = "undefined"
          /\ OrchestratorAwaits(o, StartInstrumentationBranch(FALSE))
       \/ /\ ProbeCatch("500") = "throw"
          /\ OrchestratorThrows(o, Rejected("500"))
    /\ UNCHANGED <<runs, single>>

\* startInstrumentation: deleteProfiling of the run the probe found
ConcurrentDeletePreviousRun(o) ==
    /\ orchestrators[o].pc = "deletePreviousRun"
    /\ \/ /\ runs' = [runs EXCEPT
                         ![orchestrators[o].found].state = "DELETED",
                         ![orchestrators[o].found].deletedBy = o]
          /\ OrchestratorAwaits(o, "createProfilingRun")
       \/ /\ OrchestratorThrows(o, Rejected("500"))
          /\ UNCHANGED runs
    /\ UNCHANGED single

\* startInstrumentation: the post that creates the run, then errorHandler
ConcurrentCreateProfilingRun(o) ==
    /\ orchestrators[o].pc = "createProfilingRun"
    /\ \/ \E res \in Responses :
            IF ErrorHandler(res) # NoError
               THEN /\ OrchestratorThrows(o, ErrorHandler(res))
                    /\ UNCHANGED runs
               ELSE /\ runs' = [runs EXCEPT
                                   ![NextRun] =
                                       [app |-> orchestrators[o].app,
                                        state |-> "CREATED",
                                        deletedBy |-> Undefined]]
                    /\ orchestrators' =
                          [orchestrators EXCEPT
                              ![o].run = NextRun,
                              ![o].pc = "getInstrumentation"]
       \/ /\ OrchestratorThrows(o, Rejected("500"))
          /\ UNCHANGED runs
    /\ UNCHANGED single

\* one round of pollInstrumentation on the run this caller created
ConcurrentGetInstrumentation(o) ==
    /\ orchestrators[o].pc = "getInstrumentation"
    /\ \/ LET state == runs[orchestrators[o].run].state
          IN  CASE PollInstrumentationBranch(state) = "throw" ->
                     OrchestratorThrows(o, "Protection canceled by user")
                [] PollInstrumentationBranch(state) = "errorHandler" ->
                     \E a \in InstrumentationAnswers(state) :
                       LET failed == WithInstrumentationErrors(
                                         FetchedInstrumentation(
                                             Undefined, state, a))
                       IN  IF ~a.hasErrors
                              THEN OrchestratorThrows(o,
                                       "TypeError: Cannot read "
                                           \o "property 'concat' of "
                                           \o "undefined")
                           ELSE IF ErrorHandler(failed) # NoError
                              THEN OrchestratorThrows(o, ErrorHandler(failed))
                           ELSE OrchestratorAwaits(o,
                                    "downloadApplicationInstrumented")
                [] PollInstrumentationBranch(state) = "return" ->
                     OrchestratorAwaits(o, "downloadApplicationInstrumented")
                [] OTHER ->
                     OrchestratorAwaits(o, "pollInstrumentationDelay")
       \/ OrchestratorThrows(o, Rejected("500"))
    /\ UNCHANGED <<runs, single>>

\* the 500 ms sleep between two fetches
ConcurrentPollInstrumentationDelay(o) ==
    /\ orchestrators[o].pc = "pollInstrumentationDelay"
    /\ OrchestratorAwaits(o, "getInstrumentation")
    /\ UNCHANGED <<runs, single>>

\* the download, the closing lines and the return of the run id
ConcurrentDownloadApplicationInstrumented(o) ==
    /\ orchestrators[o].pc = "downloadApplicationInstrumented"
    /\ \/ orchestrators' = [orchestrators EXCEPT ![o].pc = "done",
                                                  ![o].outcome = "returned"]
       \/ OrchestratorThrows(o, Rejected("500"))
    /\ UNCHANGED <<runs, single>>

\* the remote service finishes instrumenting a run, or fails to
RemoteRunSettles ==
    \E r \in DOMAIN runs, state \in {"FINISHED_INSTRUMENTATION",
                                     "FAILED_INSTRUMENTATION"} :
        /\ runs[r].state = "CREATED"
        /\ runs' = [runs EXCEPT ![r].state = state]
        /\ UNCHANGED <<orchestrators, single>>

\* the promise has settled and the caller may call again
ConcurrentSettled(o) ==
    /\ orchestrators[o].pc = "done"
    /\ Invoked < MaxRuns
    /\ orchestrators' =
          [orchestrators EXCEPT
              ![o] = [IdleOrchestrator EXCEPT
                         !.invocations = orchestrators[o].invocations]]
    /\ UNCHANGED <<runs, single>>

ConcurrentNext ==
    \/ \E o \in Orchestrators : ConcurrentInstrumentAndDownload(o)
    \/ \E o \in Orchestrators : ConcurrentStartInstrumentation(o)
    \/ \E o \in Orchestrators : ConcurrentDeletePreviousRun(o)
    \/ \E o \in Orchestrators : ConcurrentCreateProfilingRun(o)
    \/ \E o \in Orchestrators : ConcurrentGetInstrumentation(o)
    \/ \E o \in Orchestrators : ConcurrentPollInstrumentationDelay(o)
    \/ \E o \in Orchestrators : ConcurrentDownloadApplicationInstrumented(o)
    \/ \E o \in Orchestrators : ConcurrentSettled(o)
    \/ RemoteRunSettles

ConcurrentInit == Init /\ remoteRun = NoRun

ConcurrentSpec == ConcurrentInit /\ [][ConcurrentNext]_vars

----------------------------------------------------------------------------
(* C25 *)

\* the caller's invocation failed because the run it polled was deleted
Canceled(o) ==
    /\ orchestrators[o].outcome = "threw"
    /\ orchestrators[o].error = "Protection canceled by user"

\* the applications that hold more than one active run
Raced == { app \in Applications : Cardinality(ActiveRunsOf(app)) > 1 }

\* C25: with concurrent callers of instrumentAndDownload nothing keeps an
\* application at one active run: the run a caller's probe finds, and the
\* run it deletes, is a run of the application the caller was called for,
\* whoever created it; a caller that fails with the cancellation error was
\* polling a run of its application that another caller deleted; and a
\* step that deletes a run is the delete of a caller that was called for
\* the application of that run, so callers of different applications leave
\* each other's runs, and with them each other's outcomes, alone.
C25_RacesStayWithinApplication ==
    /\ [](\A o \in Orchestrators :
            /\ orchestrators[o].found # 0 =>
                  /\ runs[orchestrators[o].found].app = orchestrators[o].app
                  /\ orchestrators[o].found # orchestrators[o].run
            /\ orchestrators[o].run # 0 =>
                  runs[orchestrators[o].run].app = orchestrators[o].app
            /\ Canceled(o) =>
                  /\ orchestrators[o].run # 0
                  /\ runs[orchestrators[o].run].state = "DELETED"
                  /\ runs[orchestrators[o].run].deletedBy
                         \in Orchestrators \ {o})
    /\ [][\A r \in DOMAIN runs :
            runs'[r].state = "DELETED" /\ runs[r].state # "DELETED" =>
                \E o \in Orchestrators :
                    /\ orchestrators[o].pc = "deletePreviousRun"
                    /\ orchestrators[o].app = runs[r].app
                    /\ orchestrators[o].found = r
                    /\ runs'[r].deletedBy = o]_vars

\* both callers were called for one application, which holds two active
\* runs, and one caller has failed with the cancellation error after the
\* other deleted the run it was polling
C25_Witness ==
    \E o \in Orchestrators, other \in Orchestrators :
        /\ o # other
        /\ Canceled(o)
        /\ runs[orchestrators[o].run].deletedBy = other
        /\ orchestrators[other].app = orchestrators[o].app
        /\ orchestrators[o].app \in Raced

====
